---- MODULE Spec2Model ----
(***************************************************************************)
(* A model of the chess rules engine of clichess (libs/game): the Game     *)
(* state (board, stored king squares, capture lists, board history), the   *)
(* pseudo-legal move generators, the attack detector, the legality filter  *)
(* valid_moves_from, can_castle, execute_move and undo_last_move.          *)
(***************************************************************************)
EXTENDS Integers, Sequences, FiniteSets, TLC

\* ------------------------------------------------------------------------
\* Coordinates: File and Rank are the ordinals 1..8, a ChessIndex is the
\* pair <<file, rank>>.  None (of Option<File>, Option<Rank>) is 0 and
\* None of Option<ChessIndex> is NoIdx.
\* ------------------------------------------------------------------------
Files == 1..8
Ranks == 1..8
Index == Files \X Ranks
NoIdx == <<0, 0>>

ChessIndex_new(f, r) == <<f, r>>
file(idx) == idx[1]
rank(idx) == idx[2]

A1 == <<1, 1>>
C1 == <<3, 1>>
D1 == <<4, 1>>
E1 == <<5, 1>>
F1 == <<6, 1>>
G1 == <<7, 1>>
H1 == <<8, 1>>
A8 == <<1, 8>>
E8 == <<5, 8>>
G8 == <<7, 8>>
H8 == <<8, 8>>
E7 == <<5, 7>>

\* u8::try_from(i32) followed by File::try_from / Rank::try_from
File_try_from(v) == IF v \in 1..8 THEN v ELSE 0
Rank_try_from(v) == IF v \in 1..8 THEN v ELSE 0

\* impl Add<u8> for File: v += rhs on a u8, then try_from
File_add(f, rhs) == File_try_from((f + rhs) % 256)
\* impl Sub<u8> for File: checked_sub, then try_from
File_sub(f, rhs) == IF rhs > f THEN 0 ELSE File_try_from(f - rhs)
\* impl Add<u8> for Rank
Rank_add(r, rhs) == Rank_try_from((r + rhs) % 256)
\* impl Sub<u8> for Rank
Rank_sub(r, rhs) == IF rhs > r THEN 0 ELSE Rank_try_from(r - rhs)
\* impl Add<i32> for Rank: a negative operand subtracts its absolute value
Rank_add_i32(r, rhs) ==
    IF rhs < 0
    THEN (IF -rhs > 255 THEN 0 ELSE Rank_sub(r, -rhs))
    ELSE (IF rhs > 255 THEN 0 ELSE Rank_add(r, rhs))

\* ChessIndex::try_from((i32, i32))
ChessIndex_try_from(f, r) ==
    IF File_try_from(f) # 0 /\ Rank_try_from(r) # 0 THEN <<f, r>> ELSE NoIdx

\* a variant that takes every rank short of the last two for a starting rank
is_pawn_starting_rank_wide(r, color) ==
    \/ r \in 2..6 /\ color = "White"
    \/ r \in 3..7 /\ color = "Black"

is_pawn_starting_rank(r, color) ==
    \/ r = 2 /\ color = "White"
    \/ r = 7 /\ color = "Black"

is_pawn_promotion_rank(r, color) ==
    \/ r = 2 /\ color = "Black"
    \/ r = 7 /\ color = "White"

\* the rank on which a pawn stands beside an enemy pawn that has just
\* advanced two squares
is_en_passant_rank(r, color) ==
    \/ r = 5 /\ color = "White"
    \/ r = 4 /\ color = "Black"

\* ChessIndex::indices_between: both end squares included, empty when the
\* squares share neither file nor rank
indices_between(from, to) ==
    IF file(from) = file(to)
    THEN (IF rank(from) <= rank(to)
          THEN [i \in 1..(rank(to) - rank(from) + 1) |-> <<file(from), rank(from) + i - 1>>]
          ELSE [i \in 1..(rank(from) - rank(to) + 1) |-> <<file(from), rank(from) - i + 1>>])
    ELSE IF rank(from) = rank(to)
    THEN (IF file(from) <= file(to)
          THEN [i \in 1..(file(to) - file(from) + 1) |-> <<file(from) + i - 1, rank(from)>>]
          ELSE [i \in 1..(file(from) - file(to) + 1) |-> <<file(from) - i + 1, rank(from)>>])
    ELSE << >>

\* ------------------------------------------------------------------------
\* Colors and pieces
\* ------------------------------------------------------------------------
Colors == {"White", "Black"}
opponent(c) == IF c = "Black" THEN "White" ELSE "Black"

\* the empty slot of a Square (Option<Piece> = None)
NoPiece == [piece_type |-> "None", color |-> "None", history |-> << >>]

Piece_new(pt, c) == [piece_type |-> pt, color |-> c, history |-> << >>]

is_some(p) == p.piece_type # "None"
is_none(p) == p.piece_type = "None"

add_index_to_history(p, idx) == [p EXCEPT !.history = Append(@, idx)]

\* a piece has moved once its history holds more than its first square
has_made_move(p) == Len(p.history) > 1

\* the square the piece stood on before its last move, if any
previous_index(p) ==
    IF Len(p.history) >= 2 THEN p.history[Len(p.history) - 1] ELSE NoIdx

\* ------------------------------------------------------------------------
\* Board: 64 squares, each holding a piece or NoPiece
\* ------------------------------------------------------------------------
\* ChessBoard::set_piece: the square is appended to the piece's history
set_piece(b, idx, p) == [b EXCEPT ![idx] = add_index_to_history(p, idx)]

\* the board left behind by Square::take_piece
take_piece(b, idx) == [b EXCEPT ![idx] = NoPiece]

\* ------------------------------------------------------------------------
\* Moves
\* ------------------------------------------------------------------------
regular(from, to) ==
    [kind |-> "Regular", from_idx |-> from, to_idx |-> to,
     promotion_piece |-> "None", taken_pawn_idx |-> NoIdx,
     rook_from |-> NoIdx, rook_to |-> NoIdx]

promotion(from, to, pt) ==
    [kind |-> "Promotion", from_idx |-> from, to_idx |-> to,
     promotion_piece |-> pt, taken_pawn_idx |-> NoIdx,
     rook_from |-> NoIdx, rook_to |-> NoIdx]

promotions(from, to) ==
    << promotion(from, to, "Knight"), promotion(from, to, "Rook"),
       promotion(from, to, "Queen"), promotion(from, to, "Bishop") >>

en_passant(from, to, taken) ==
    [kind |-> "EnPassant", from_idx |-> from, to_idx |-> to,
     promotion_piece |-> "None", taken_pawn_idx |-> taken,
     rook_from |-> NoIdx, rook_to |-> NoIdx]

\* from_idx / to_idx of a Castle move are king_from / king_to
CastleMove_new(king_from, king_to, rook_from, rook_to) ==
    [kind |-> "Castle", from_idx |-> king_from, to_idx |-> king_to,
     promotion_piece |-> "None", taken_pawn_idx |-> NoIdx,
     rook_from |-> rook_from, rook_to |-> rook_to]

\* ------------------------------------------------------------------------
\* Attack / check detector
\* ------------------------------------------------------------------------
\* first Some(..) of a sequence of Option<ChessIndex> (the early returns)
RECURSIVE first_some(_, _)
first_some(opts, i) ==
    IF i > Len(opts) THEN NoIdx
    ELSE IF opts[i] # NoIdx THEN opts[i]
    ELSE first_some(opts, i + 1)

\* one `for idx in ... .skip(1)` loop of the is_checked_by_* scans: walk
\* from start by (df, dr) to the first occupied square; Some(idx) when that
\* piece is an opponent's piece of type pt, otherwise the loop breaks
\* a variant that looks through every piece that is not of the type sought
RECURSIVE scan_ray_through(_, _, _, _, _, _, _)
scan_ray_through(b, start, df, dr, n, pt, opp) ==
    LET idx == ChessIndex_try_from(file(start) + n * df, rank(start) + n * dr)
    IN  IF idx = NoIdx THEN NoIdx
        ELSE IF b[idx].piece_type = pt /\ b[idx].color = opp THEN idx
        ELSE scan_ray_through(b, start, df, dr, n + 1, pt, opp)

RECURSIVE scan_ray(_, _, _, _, _, _, _)
scan_ray(b, start, df, dr, n, pt, opp) ==
    LET idx == ChessIndex_try_from(file(start) + n * df, rank(start) + n * dr)
    IN  IF idx = NoIdx THEN NoIdx
        ELSE IF is_some(b[idx])
             THEN (IF b[idx].piece_type = pt /\ b[idx].color = opp THEN idx ELSE NoIdx)
             ELSE scan_ray(b, start, df, dr, n + 1, pt, opp)

is_checked_by_bishop(g, king_index, king_color) ==
    LET opp == opponent(king_color)
    IN  first_some(<< scan_ray(g.board, king_index, 1, 1, 1, "Bishop", opp),
                      scan_ray(g.board, king_index, 1, -1, 1, "Bishop", opp),
                      scan_ray(g.board, king_index, -1, 1, 1, "Bishop", opp),
                      scan_ray(g.board, king_index, -1, -1, 1, "Bishop", opp) >>, 1)

\* Some(to_index) when the offset square holds an opponent's piece of type pt
offset_attacker(g, king_index, off, pt, opp) ==
    LET to_index == ChessIndex_try_from(file(king_index) + off[1], rank(king_index) + off[2])
    IN  IF to_index # NoIdx
           /\ g.board[to_index].piece_type = pt
           /\ g.board[to_index].color = opp
        THEN to_index ELSE NoIdx

\* a variant that looks for the pawns behind the square
is_checked_by_pawn_behind(g, king_index, king_color) ==
    LET opp     == opponent(king_color)
        offsets == IF king_color = "Black"
                   THEN << <<-1, 1>>, <<1, 1>> >>
                   ELSE << <<-1, -1>>, <<1, -1>> >>
    IN  first_some([i \in 1..2 |-> offset_attacker(g, king_index, offsets[i], "Pawn", opp)], 1)

is_checked_by_pawn(g, king_index, king_color) ==
    LET opp     == opponent(king_color)
        offsets == IF king_color = "White"
                   THEN << <<-1, 1>>, <<1, 1>> >>
                   ELSE << <<-1, -1>>, <<1, -1>> >>
    IN  first_some([i \in 1..2 |-> offset_attacker(g, king_index, offsets[i], "Pawn", opp)], 1)

knight_offsets ==
    << <<2, 1>>, <<2, -1>>, <<-2, 1>>, <<-2, -1>>,
       <<1, 2>>, <<1, -2>>, <<-1, 2>>, <<-1, -2>> >>

is_checked_by_knight(g, king_index, king_color) ==
    LET opp == opponent(king_color)
    IN  first_some([i \in 1..8 |->
                      offset_attacker(g, king_index, knight_offsets[i], "Knight", opp)], 1)

is_checked_by_rook(g, king_index, king_color) ==
    LET opp == opponent(king_color)
    IN  first_some(<< scan_ray(g.board, king_index, 1, 0, 1, "Rook", opp),
                      scan_ray(g.board, king_index, -1, 0, 1, "Rook", opp),
                      scan_ray(g.board, king_index, 0, 1, 1, "Rook", opp),
                      scan_ray(g.board, king_index, 0, -1, 1, "Rook", opp) >>, 1)

is_checked_by_queen(g, king_index, king_color) ==
    LET opp == opponent(king_color)
    IN  first_some(<< scan_ray(g.board, king_index, 1, 0, 1, "Queen", opp),
                      scan_ray(g.board, king_index, -1, 0, 1, "Queen", opp),
                      scan_ray(g.board, king_index, 0, 1, 1, "Queen", opp),
                      scan_ray(g.board, king_index, 0, -1, 1, "Queen", opp),
                      scan_ray(g.board, king_index, 1, 1, 1, "Queen", opp),
                      scan_ray(g.board, king_index, 1, -1, 1, "Queen", opp),
                      scan_ray(g.board, king_index, -1, 1, 1, "Queen", opp),
                      scan_ray(g.board, king_index, -1, -1, 1, "Queen", opp) >>, 1)

\* Check if a square is in check
is_checked(g, index, color) ==
    \/ is_checked_by_knight(g, index, color) # NoIdx
    \/ is_checked_by_pawn(g, index, color) # NoIdx
    \/ is_checked_by_bishop(g, index, color) # NoIdx
    \/ is_checked_by_rook(g, index, color) # NoIdx
    \/ is_checked_by_queen(g, index, color) # NoIdx

is_king_checked(g, color) ==
    IF color = "Black"
    THEN is_checked(g, g.black_king, color)
    ELSE is_checked(g, g.white_king, color)

\* ------------------------------------------------------------------------
\* Pseudo-legal move generators
\* ------------------------------------------------------------------------
\* Steps by (file_step, rank_step) until some other piece is reached
\* a variant that includes the first occupied square whatever stands on it
RECURSIVE moves_to_any_piece_from(_, _, _, _, _, _)
moves_to_any_piece_from(g, start, file_step, rank_step, color, n) ==
    LET f == File_try_from(file(start) + n * file_step)
        r == Rank_try_from(rank(start) + n * rank_step)
    IN  IF f = 0 \/ r = 0 THEN << >>
        ELSE IF is_some(g.board[ChessIndex_new(f, r)])
             THEN << regular(start, ChessIndex_new(f, r)) >>
             ELSE << regular(start, ChessIndex_new(f, r)) >>
                  \o moves_to_any_piece_from(g, start, file_step, rank_step, color, n + 1)

RECURSIVE moves_to_opponents_piece_from(_, _, _, _, _, _)
moves_to_opponents_piece_from(g, start, file_step, rank_step, color, n) ==
    LET f == File_try_from(file(start) + n * file_step)
        r == Rank_try_from(rank(start) + n * rank_step)
    IN  IF f = 0 \/ r = 0 THEN << >>
        ELSE LET idx == ChessIndex_new(f, r)
                 p   == g.board[idx]
             IN  IF is_some(p)
                 THEN (IF p.color = opponent(color) THEN << regular(start, idx) >> ELSE << >>)
                 ELSE << regular(start, idx) >>
                      \o moves_to_opponents_piece_from(g, start, file_step, rank_step, color, n + 1)

moves_to_opponents_piece(g, start, file_step, rank_step, color) ==
    moves_to_opponents_piece_from(g, start, file_step, rank_step, color, 1)

valid_rook_moves_from(g, from_index, piece_color) ==
    moves_to_opponents_piece(g, from_index, 0, 1, piece_color)
    \o moves_to_opponents_piece(g, from_index, 0, -1, piece_color)
    \o moves_to_opponents_piece(g, from_index, 1, 0, piece_color)
    \o moves_to_opponents_piece(g, from_index, -1, 0, piece_color)

valid_bishop_moves_from(g, from_index, piece_color) ==
    moves_to_opponents_piece(g, from_index, 1, 1, piece_color)
    \o moves_to_opponents_piece(g, from_index, 1, -1, piece_color)
    \o moves_to_opponents_piece(g, from_index, -1, 1, piece_color)
    \o moves_to_opponents_piece(g, from_index, -1, -1, piece_color)

valid_queen_moves_from(g, from_index, piece_color) ==
    valid_rook_moves_from(g, from_index, piece_color)
    \o valid_bishop_moves_from(g, from_index, piece_color)

\* a step of the knight / king generators: the move unless the target is
\* off the board or holds a piece of the mover's color
offset_move(g, from_index, to_index, piece_color) ==
    IF to_index = NoIdx THEN << >>
    ELSE IF is_some(g.board[to_index]) /\ g.board[to_index].color = piece_color THEN << >>
    ELSE << regular(from_index, to_index) >>

RECURSIVE concat(_, _)
concat(seqs, i) == IF i > Len(seqs) THEN << >> ELSE seqs[i] \o concat(seqs, i + 1)

valid_knight_moves_from(g, from_index, piece_color) ==
    concat([i \in 1..8 |->
              offset_move(g, from_index,
                          ChessIndex_try_from(file(from_index) + knight_offsets[i][1],
                                              rank(from_index) + knight_offsets[i][2]),
                          piece_color)], 1)

\* ChessIndex::new(file?, rank?) guarded by `if let Some(..)`
opt_index(f, r) == IF f = 0 \/ r = 0 THEN NoIdx ELSE ChessIndex_new(f, r)

\* the eight one-square steps; no Castle move is ever produced
valid_king_moves_from(g, from_index, piece_color) ==
    LET f == file(from_index)
        r == rank(from_index)
    IN  offset_move(g, from_index, opt_index(File_add(f, 1), r), piece_color)
        \o offset_move(g, from_index, opt_index(File_sub(f, 1), r), piece_color)
        \o offset_move(g, from_index, opt_index(f, Rank_add(r, 1)), piece_color)
        \o offset_move(g, from_index, opt_index(f, Rank_sub(r, 1)), piece_color)
        \o offset_move(g, from_index, opt_index(File_add(f, 1), Rank_add(r, 1)), piece_color)
        \o offset_move(g, from_index, opt_index(File_add(f, 1), Rank_sub(r, 1)), piece_color)
        \o offset_move(g, from_index, opt_index(File_sub(f, 1), Rank_add(r, 1)), piece_color)
        \o offset_move(g, from_index, opt_index(File_sub(f, 1), Rank_sub(r, 1)), piece_color)

\* the squares left and right of idx that are on the board
side_squares(idx) ==
    SelectSeq(<< opt_index(File_sub(file(idx), 1), rank(idx)),
                 opt_index(File_add(file(idx), 1), rank(idx)) >>,
              LAMBDA i : i # NoIdx)

\* the en passant part of valid_pawn_moves_from; the .expect on
\* previous_index panics for an opposing pawn beside the pawn whose history
\* holds a single square
en_passant_moves(g, pawn_idx, pawn_color, forward_offset) ==
    IF ~is_en_passant_rank(rank(pawn_idx), pawn_color) THEN [moves |-> << >>, panic |-> FALSE]
    ELSE LET left_right == side_squares(pawn_idx)
             opposing_pawn(other_idx) ==
                 /\ g.board[other_idx].piece_type = "Pawn"
                 /\ g.board[other_idx].color = opponent(pawn_color)
             ep(other_idx) ==
                 LET other_piece == g.board[other_idx]
                 IN  IF /\ opposing_pawn(other_idx)
                        /\ rank(previous_index(other_piece))
                             = Rank_add_i32(rank(pawn_idx), 2 * forward_offset)
                     THEN << en_passant(pawn_idx,
                                        ChessIndex_new(file(other_idx),
                                                       Rank_add_i32(rank(other_idx), forward_offset)),
                                        other_idx) >>
                     ELSE << >>
         IN  IF \E i \in 1..Len(left_right) :
                    /\ opposing_pawn(left_right[i])
                    /\ previous_index(g.board[left_right[i]]) = NoIdx
             THEN [moves |-> << >>, panic |-> TRUE]
             ELSE [moves |-> concat([i \in 1..Len(left_right) |-> ep(left_right[i])], 1),
                   panic |-> FALSE]

\* a variant without the promotion branch
valid_pawn_moves_from_plain(g, pawn_idx, pawn_color) ==
    LET forward_offset == IF pawn_color = "Black" THEN -1 ELSE 1
        forward_rank   == Rank_add_i32(rank(pawn_idx), forward_offset)
    IN  IF forward_rank = 0 THEN [moves |-> << >>, panic |-> FALSE]
        ELSE
        LET forward_idx == ChessIndex_new(file(pawn_idx), forward_rank)
            diagonals   == side_squares(forward_idx)
            enemy_at(d) == is_some(g.board[d]) /\ g.board[d].color = opponent(pawn_color)
            forward_forward_idx ==
                ChessIndex_new(file(pawn_idx), Rank_add_i32(rank(pawn_idx), 2 * forward_offset))
            plain ==
                (IF is_none(g.board[forward_idx])
                 THEN << regular(pawn_idx, forward_idx) >>
                      \o (IF is_pawn_starting_rank(rank(pawn_idx), pawn_color)
                             /\ is_none(g.board[forward_forward_idx])
                          THEN << regular(pawn_idx, forward_forward_idx) >> ELSE << >>)
                 ELSE << >>)
                \o concat([i \in 1..Len(diagonals) |->
                             IF enemy_at(diagonals[i])
                             THEN << regular(pawn_idx, diagonals[i]) >> ELSE << >>], 1)
            ep == en_passant_moves(g, pawn_idx, pawn_color, forward_offset)
        IN  IF ep.panic THEN [moves |-> << >>, panic |-> TRUE]
            ELSE [moves |-> plain \o ep.moves, panic |-> FALSE]

valid_pawn_moves_from(g, pawn_idx, pawn_color) ==
    LET forward_offset == IF pawn_color = "Black" THEN -1 ELSE 1
        forward_rank   == Rank_add_i32(rank(pawn_idx), forward_offset)
    IN  IF forward_rank = 0 THEN [moves |-> << >>, panic |-> FALSE]
        ELSE
        LET forward_idx == ChessIndex_new(file(pawn_idx), forward_rank)
            diagonals   == side_squares(forward_idx)
            enemy_at(d) == is_some(g.board[d]) /\ g.board[d].color = opponent(pawn_color)
            promo ==
                (IF is_none(g.board[forward_idx]) THEN promotions(pawn_idx, forward_idx) ELSE << >>)
                \o concat([i \in 1..Len(diagonals) |->
                             IF enemy_at(diagonals[i])
                             THEN promotions(pawn_idx, diagonals[i]) ELSE << >>], 1)
            forward_forward_idx ==
                ChessIndex_new(file(pawn_idx), Rank_add_i32(rank(pawn_idx), 2 * forward_offset))
            plain ==
                (IF is_none(g.board[forward_idx])
                 THEN << regular(pawn_idx, forward_idx) >>
                      \o (IF is_pawn_starting_rank(rank(pawn_idx), pawn_color)
                             /\ is_none(g.board[forward_forward_idx])
                          THEN << regular(pawn_idx, forward_forward_idx) >> ELSE << >>)
                 ELSE << >>)
                \o concat([i \in 1..Len(diagonals) |->
                             IF enemy_at(diagonals[i])
                             THEN << regular(pawn_idx, diagonals[i]) >> ELSE << >>], 1)
            ep == en_passant_moves(g, pawn_idx, pawn_color, forward_offset)
        IN  IF ep.panic THEN [moves |-> << >>, panic |-> TRUE]
            ELSE [moves |-> (IF is_pawn_promotion_rank(rank(pawn_idx), pawn_color)
                             THEN promo ELSE plain) \o ep.moves,
                  panic |-> FALSE]

\* the `match piece.piece_type()` of valid_moves_from; it panics where
\* valid_pawn_moves_from does
pseudo_legal_moves(g, from_index) ==
    LET piece == g.board[from_index]
        c     == piece.color
        returned(moves) == [moves |-> moves, panic |-> FALSE]
    IN  CASE piece.piece_type = "Pawn"   -> valid_pawn_moves_from(g, from_index, c)
          [] piece.piece_type = "Knight" -> returned(valid_knight_moves_from(g, from_index, c))
          [] piece.piece_type = "Bishop" -> returned(valid_bishop_moves_from(g, from_index, c))
          [] piece.piece_type = "Rook"   -> returned(valid_rook_moves_from(g, from_index, c))
          [] piece.piece_type = "Queen"  -> returned(valid_queen_moves_from(g, from_index, c))
          [] piece.piece_type = "King"   -> returned(valid_king_moves_from(g, from_index, c))
          [] OTHER                       -> returned(<< >>)

\* ------------------------------------------------------------------------
\* Game state and move execution.  A Game is the record
\*   [board, white_king, black_king, white_taken, black_taken, history].
\* An execute_* operator yields [game, panic]: the Game it leaves behind and
\* whether the call aborted with a panic (game is then the state at the
\* panic).
\* ------------------------------------------------------------------------
\* a variant that pushes onto the other player's list
add_taken_piece_swapped(g, player, piece) ==
    IF player = "White"
    THEN [g EXCEPT !.black_taken = Append(@, piece)]
    ELSE [g EXCEPT !.white_taken = Append(@, piece)]

add_taken_piece(g, player, piece) ==
    IF player = "Black"
    THEN [g EXCEPT !.black_taken = Append(@, piece)]
    ELSE [g EXCEPT !.white_taken = Append(@, piece)]

\* a variant that puts the piece on the square itself (Square::set_piece)
execute_regular_move_square(g, m) ==
    LET from       == m.from_idx
        to         == m.to_idx
        from_piece == g.board[from]
        b1         == take_piece(g.board, from)
        to_piece   == b1[to]
        b2         == take_piece(b1, to)
    IN  IF is_none(from_piece) THEN [game |-> g, panic |-> TRUE]
        ELSE IF is_some(to_piece) /\ to_piece.color = from_piece.color
        THEN [game |-> [g EXCEPT !.board = b2], panic |-> TRUE]
        ELSE
        LET g1 == IF is_some(to_piece)
                  THEN add_taken_piece(g, from_piece.color, to_piece) ELSE g
            g2 == IF from_piece.piece_type = "King"
                  THEN (IF from_piece.color = "Black"
                        THEN [g1 EXCEPT !.black_king = to]
                        ELSE [g1 EXCEPT !.white_king = to])
                  ELSE g1
        IN  [game |-> [g2 EXCEPT !.board = [b2 EXCEPT ![to] = from_piece]], panic |-> FALSE]

execute_regular_move(g, m) ==
    LET from       == m.from_idx
        to         == m.to_idx
        from_piece == g.board[from]
        b1         == take_piece(g.board, from)
        to_piece   == b1[to]
        b2         == take_piece(b1, to)
    IN  IF is_none(from_piece) THEN [game |-> g, panic |-> TRUE]
        ELSE IF is_some(to_piece) /\ to_piece.color = from_piece.color
        THEN [game |-> [g EXCEPT !.board = b2], panic |-> TRUE]
        ELSE
        LET g1 == IF is_some(to_piece)
                  THEN add_taken_piece(g, from_piece.color, to_piece) ELSE g
            g2 == IF from_piece.piece_type = "King"
                  THEN (IF from_piece.color = "Black"
                        THEN [g1 EXCEPT !.black_king = to]
                        ELSE [g1 EXCEPT !.white_king = to])
                  ELSE g1
        IN  [game |-> [g2 EXCEPT !.board = set_piece(b2, to, from_piece)], panic |-> FALSE]

\* a variant that puts the pawn itself on the destination
execute_promotion_move_pawn(g, m) ==
    LET pawn        == g.board[m.from_idx]
        b1          == take_piece(g.board, m.from_idx)
        taken_piece == b1[m.to_idx]
        b2          == take_piece(b1, m.to_idx)
    IN  IF is_none(pawn) THEN [game |-> g, panic |-> TRUE]
        ELSE
        LET g1 == IF is_some(taken_piece)
                  THEN add_taken_piece(g, pawn.color, taken_piece) ELSE g
        IN  [game |-> [g1 EXCEPT !.board = set_piece(b2, m.to_idx, pawn)], panic |-> FALSE]

execute_promotion_move(g, m) ==
    LET pawn        == g.board[m.from_idx]
        b1          == take_piece(g.board, m.from_idx)
        taken_piece == b1[m.to_idx]
        b2          == take_piece(b1, m.to_idx)
    IN  IF is_none(pawn) THEN [game |-> g, panic |-> TRUE]
        ELSE
        LET g1 == IF is_some(taken_piece)
                  THEN add_taken_piece(g, pawn.color, taken_piece) ELSE g
        IN  [game |-> [g1 EXCEPT !.board =
                          set_piece(b2, m.to_idx, Piece_new(m.promotion_piece, pawn.color))],
             panic |-> FALSE]

execute_en_passant_move(g, m) ==
    LET pawn       == g.board[m.from_idx]
        b1         == take_piece(g.board, m.from_idx)
        taken_pawn == b1[m.taken_pawn_idx]
        b2         == take_piece(b1, m.taken_pawn_idx)
    IN  IF is_some(g.board[m.to_idx]) THEN [game |-> g, panic |-> TRUE]
        ELSE IF is_none(pawn) THEN [game |-> g, panic |-> TRUE]
        ELSE IF is_none(taken_pawn) THEN [game |-> [g EXCEPT !.board = b1], panic |-> TRUE]
        ELSE IF taken_pawn.piece_type # "Pawn"
        THEN [game |-> [g EXCEPT !.board = b2], panic |-> TRUE]
        ELSE [game |-> [add_taken_piece(g, pawn.color, taken_pawn)
                           EXCEPT !.board = set_piece(b2, m.to_idx, pawn)],
              panic |-> FALSE]

\* the stored king square is left as it was
execute_castle_move(g, m) ==
    LET king == g.board[m.from_idx]
        b1   == take_piece(g.board, m.from_idx)
        rook == b1[m.rook_from]
        b2   == take_piece(b1, m.rook_from)
    IN  IF is_none(king) THEN [game |-> g, panic |-> TRUE]
        ELSE IF is_none(rook) THEN [game |-> [g EXCEPT !.board = b1], panic |-> TRUE]
        ELSE IF is_some(b2[m.to_idx]) \/ is_some(b2[m.rook_to])
        THEN [game |-> [g EXCEPT !.board = b2], panic |-> TRUE]
        ELSE [game |-> [g EXCEPT !.board = set_piece(set_piece(b2, m.to_idx, king),
                                                      m.rook_to, rook)],
              panic |-> FALSE]

\* execute_move: the pre-move board is pushed after the variant has run
execute_move_result(g, chess_move) ==
    LET prev == g.board
        res  == CASE chess_move.kind = "Regular"   -> execute_regular_move(g, chess_move)
                  [] chess_move.kind = "Castle"    -> execute_castle_move(g, chess_move)
                  [] chess_move.kind = "Promotion" -> execute_promotion_move(g, chess_move)
                  [] chess_move.kind = "EnPassant" -> execute_en_passant_move(g, chess_move)
    IN  IF res.panic THEN res
        ELSE [game |-> [res.game EXCEPT !.history = Append(@, prev)], panic |-> FALSE]

execute_move(g, chess_move) == execute_move_result(g, chess_move).game
execute_move_panics(g, chess_move) == execute_move_result(g, chess_move).panic

\* a variant that reads the last history entry and leaves it in place
undo_last_move_peek(g) ==
    IF g.history # << >>
    THEN [g EXCEPT !.board = g.history[Len(g.history)]]
    ELSE g

\* only the board is restored
undo_last_move(g) ==
    IF g.history # << >>
    THEN [g EXCEPT !.board = g.history[Len(g.history)],
                   !.history = SubSeq(g.history, 1, Len(g.history) - 1)]
    ELSE g

\* ------------------------------------------------------------------------
\* Legality filter
\* ------------------------------------------------------------------------
\* the loop of valid_moves_from over the pseudo-legal moves: each is
\* executed on the clone, the mover's king is queried, the move is undone
\* a variant that keeps every pseudo-legal move
filter_moves_unchecked(clone, valid_moves, i, piece_color) ==
    [moves |-> SubSeq(valid_moves, i, Len(valid_moves)),
     panic |-> \E j \in i..Len(valid_moves) : execute_move_panics(clone, valid_moves[j])]

RECURSIVE filter_moves(_, _, _, _)
filter_moves(clone, valid_moves, i, piece_color) ==
    IF i > Len(valid_moves) THEN [moves |-> << >>, panic |-> FALSE]
    ELSE LET res == execute_move_result(clone, valid_moves[i])
         IN  IF res.panic THEN [moves |-> << >>, panic |-> TRUE]
             ELSE LET keep == ~is_king_checked(res.game, piece_color)
                      rest == filter_moves(undo_last_move(res.game), valid_moves, i + 1, piece_color)
                  IN  [moves |-> (IF keep THEN << valid_moves[i] >> ELSE << >>) \o rest.moves,
                       panic |-> rest.panic]

valid_moves_from_result(g, from_index) ==
    IF is_none(g.board[from_index]) THEN [moves |-> << >>, panic |-> FALSE]
    ELSE LET generated == pseudo_legal_moves(g, from_index)
         IN  IF generated.panic THEN [moves |-> << >>, panic |-> TRUE]
             ELSE filter_moves(g, generated.moves, 1, g.board[from_index].color)

valid_moves_from(g, from_index) == valid_moves_from_result(g, from_index).moves
valid_moves_from_panics(g, from_index) == valid_moves_from_result(g, from_index).panic

contains(seq, x) == \E i \in 1..Len(seq) : seq[i] = x

\* it panics where valid_moves_from does
is_move_valid(g, chess_move) ==
    LET res == valid_moves_from_result(g, chess_move.from_idx)
    IN  [valid |-> ~res.panic /\ contains(res.moves, chess_move), panic |-> res.panic]

\* ------------------------------------------------------------------------
\* Castling
\* ------------------------------------------------------------------------
CanCastleOk(m) == [tag |-> "Ok", idx |-> NoIdx, move |-> m]
CanCastleErr(t, i) == [tag |-> t, idx |-> i, move |-> regular(NoIdx, NoIdx)]

\* the loop over indices_between: the first square that is occupied
\* (other than the two end squares) or attacked decides the error
RECURSIVE castle_path_error(_, _, _, _, _, _)
castle_path_error(g, between, i, king_index, rook_index, color) ==
    IF i > Len(between) THEN CanCastleErr("None", NoIdx)
    ELSE LET index_in_between == between[i]
         IN  IF /\ index_in_between # king_index
                /\ index_in_between # rook_index
                /\ is_some(g.board[index_in_between])
             THEN CanCastleErr("PiecesBetween", NoIdx)
             ELSE IF is_checked(g, index_in_between, color)
             THEN CanCastleErr("SquareInCheck", index_in_between)
             ELSE castle_path_error(g, between, i + 1, king_index, rook_index, color)

\* debug is TRUE for a build with debug assertions (debug_assert! active)
can_castle(g, king_index, rook_index, debug) ==
    LET king == g.board[king_index]
        rook == g.board[rook_index]
    IN  IF ~(king.piece_type = "King" /\ rook.piece_type = "Rook" /\ king.color = rook.color)
        THEN CanCastleErr("WrongPieces", NoIdx)
        ELSE IF has_made_move(king) THEN CanCastleErr("PieceHasMadeMove", king_index)
        ELSE IF has_made_move(rook) THEN CanCastleErr("PieceHasMadeMove", rook_index)
        ELSE
        LET between == indices_between(king_index, rook_index)
            err     == castle_path_error(g, between, 1, king_index, rook_index, king.color)
            toward  == IF file(king_index) < file(rook_index) THEN 1 ELSE -1
            kf      == IF toward = 1 THEN File_add(file(king_index), 2)
                                     ELSE File_sub(file(king_index), 2)
            rf      == IF toward = 1 THEN File_add(file(king_index), 1)
                                     ELSE File_sub(file(king_index), 1)
        IN  IF debug /\ Len(between) # 4 /\ Len(between) # 5
            THEN CanCastleErr("Panic", NoIdx)
            ELSE IF err.tag # "None" THEN err
            ELSE IF kf = 0 \/ rf = 0 THEN CanCastleErr("Panic", NoIdx)
            ELSE CanCastleOk(CastleMove_new(king_index,
                                            ChessIndex_new(kf, rank(king_index)),
                                            rook_index,
                                            ChessIndex_new(rf, rank(rook_index))))

\* ------------------------------------------------------------------------
\* Game::new()
\* ------------------------------------------------------------------------
back_rank == << "Rook", "Knight", "Bishop", "Queen", "King", "Bishop", "Knight", "Rook" >>

starting_board ==
    [i \in Index |->
        CASE rank(i) = 1 -> add_index_to_history(Piece_new(back_rank[file(i)], "White"), i)
          [] rank(i) = 2 -> add_index_to_history(Piece_new("Pawn", "White"), i)
          [] rank(i) = 7 -> add_index_to_history(Piece_new("Pawn", "Black"), i)
          [] rank(i) = 8 -> add_index_to_history(Piece_new(back_rank[file(i)], "Black"), i)
          [] OTHER       -> NoPiece]

Game_default ==
    [board       |-> starting_board,
     white_king  |-> E1,
     black_king  |-> E7,
     white_taken |-> << >>,
     black_taken |-> << >>,
     history     |-> << >>]

\* ------------------------------------------------------------------------
\* Bounds
\* ------------------------------------------------------------------------
\* moves executed beyond the opening lines
MaxPly == 1
\* undo_last_move calls
MaxUndo == 1

\* ------------------------------------------------------------------------
\* Opening lines: move sequences played from Game::new(), every move taken
\* from valid_moves_from of the position it is played in.  The state
\* machine starts from the positions they lead to.
\* ------------------------------------------------------------------------
NoMove == regular(NoIdx, NoIdx)

\* Game::new() itself
LineNew == << >>

\* 1. e4
LineKingPawn == << regular(<<5, 2>>, <<5, 4>>) >>

\* White: g4 g5 g6 gxh7 Nh3 e4 e5 Bc4; Black: b6 e6 Bb4 Ke7 f5.  White may
\* castle king-side, capture f5 en passant, promote on g8; the pawn d2 is
\* pinned by the bishop b4; both stored king squares name the kings' squares.
LineMiddle ==
    << regular(<<7, 2>>, <<7, 4>>), regular(<<7, 4>>, <<7, 5>>),
       regular(<<7, 5>>, <<7, 6>>), regular(<<7, 6>>, <<8, 7>>),
       regular(<<7, 1>>, <<8, 3>>), regular(<<5, 2>>, <<5, 4>>),
       regular(<<5, 4>>, <<5, 5>>), regular(<<6, 1>>, <<3, 4>>),
       regular(<<2, 7>>, <<2, 6>>), regular(<<5, 7>>, <<5, 6>>),
       regular(<<6, 8>>, <<2, 4>>), regular(<<5, 8>>, <<5, 7>>),
       regular(<<6, 7>>, <<6, 5>>) >>

\* LineMiddle, then hxg8=R, Nf4, Nd5 and Nf6: a rook that was never moved
\* stands on g8 and the square behind the pawn f5 holds a white knight
LinePromoted ==
    LineMiddle \o << promotion(<<8, 7>>, <<7, 8>>, "Rook"),
                     regular(<<8, 3>>, <<6, 4>>), regular(<<6, 4>>, <<4, 5>>),
                     regular(<<4, 5>>, <<6, 6>>) >>

\* 1. e4 a6 2. e5 f5 3. Nf3 a5 4. Ng5 b6 5. Ne4 b5 6. Nf6 b4: the square
\* behind the pawn f5, which has made a double step, holds a white knight
\* and valid_moves_from of the pawn e5 aborts
LineKnightBehind ==
    << regular(<<5, 2>>, <<5, 4>>), regular(<<1, 7>>, <<1, 6>>),
       regular(<<5, 4>>, <<5, 5>>), regular(<<6, 7>>, <<6, 5>>),
       regular(<<7, 1>>, <<6, 3>>), regular(<<1, 6>>, <<1, 5>>),
       regular(<<6, 3>>, <<7, 5>>), regular(<<2, 7>>, <<2, 6>>),
       regular(<<7, 5>>, <<5, 4>>), regular(<<2, 6>>, <<2, 5>>),
       regular(<<5, 4>>, <<6, 6>>), regular(<<2, 5>>, <<2, 4>>) >>

RECURSIVE replay(_, _, _)
replay(g, line, n) ==
    IF n = 0 THEN g ELSE execute_move(replay(g, line, n - 1), line[n])

\* every move of the line is offered by valid_moves_from when it is played
line_is_valid(line) ==
    \A n \in 1..Len(line) : is_move_valid(replay(Game_default, line, n - 1), line[n]).valid

Lines == {LineNew, LineMiddle, LinePromoted}
LinesUndo == {LineNew, LineKingPawn, LineKnightBehind}

\* ------------------------------------------------------------------------
\* State
\* ------------------------------------------------------------------------
VARIABLES
    board, white_king, black_king, white_taken, black_taken, history,
    panicked,    \* the process has aborted with a panic
    ply,         \* moves executed since the opening line
    undos,       \* undo_last_move calls made
    last,        \* the last operation: "new", a move kind, "undo", "panic",
                 \* "failed" (an execute_move that aborted)
    last_move,   \* the move of the last execute_move
    pre,         \* the Game before the last execute_move
    call,        \* a call of a function of File, Rank or ChessIndex
    ret,         \* what the call has returned
    pc,          \* where PlayLocal::play stands: "none" (not started),
                 \* "choose_from_square", "choose_move" (each waiting for a
                 \* square from the player) or "over" (play has returned)
    turn,        \* the player of the single_turn in progress
    entered,     \* the square of the piece last chosen in choose_from_square
    valid_moves, \* the map from destination to move that choose_move holds,
                 \* as the set of its << key, value >> pairs
    said         \* the last message printed

game_vars == << board, white_king, black_king, white_taken, black_taken, history >>
pure_vars == << call, ret >>
loop_vars == << pc, turn, entered, valid_moves, said >>
vars == << board, white_king, black_king, white_taken, black_taken, history,
           panicked, ply, undos, last, last_move, pre, call, ret,
           pc, turn, entered, valid_moves, said >>

\* no call made, nothing returned
NoCall == [fn |-> "none", args |-> << >>]
NoRet == [tag |-> "none", val |-> << >>]

\* the Game held by the variables
G == [board       |-> board,
      white_king  |-> white_king,
      black_king  |-> black_king,
      white_taken |-> white_taken,
      black_taken |-> black_taken,
      history     |-> history]

SetGame(g) ==
    /\ board' = g.board
    /\ white_king' = g.white_king
    /\ black_king' = g.black_king
    /\ white_taken' = g.white_taken
    /\ black_taken' = g.black_taken
    /\ history' = g.history

ExecKinds == {"Regular", "Castle", "Promotion", "EnPassant"}

InitGame(line) ==
    LET n  == Len(line)
        g  == replay(Game_default, line, n)
        g0 == IF n = 0 THEN Game_default ELSE replay(Game_default, line, n - 1)
    IN  /\ board = g.board
        /\ white_king = g.white_king
        /\ black_king = g.black_king
        /\ white_taken = g.white_taken
        /\ black_taken = g.black_taken
        /\ history = g.history
        /\ panicked = FALSE
        /\ ply = 0
        /\ undos = 0
        /\ last = (IF n = 0 THEN "new" ELSE line[n].kind)
        /\ last_move = (IF n = 0 THEN NoMove ELSE line[n])
        /\ pre = g0

\* PlayLocal::play has not been called
NoLoop ==
    /\ pc = "none"
    /\ turn = "White"
    /\ entered = NoIdx
    /\ valid_moves = {}
    /\ said = "none"

InitFrom(line) == InitGame(line) /\ call = NoCall /\ ret = NoRet /\ NoLoop

Init == \E line \in Lines : InitFrom(line)
InitUndo == \E line \in LinesUndo : InitFrom(line)

\* ------------------------------------------------------------------------
\* Operations
\* ------------------------------------------------------------------------
Executed(m) ==
    /\ \E g \in {execute_move(G, m)} : SetGame(g)
    /\ ply' = ply + 1
    /\ last' = m.kind
    /\ last_move' = m
    /\ pre' = G
    /\ UNCHANGED << panicked, undos, pure_vars, loop_vars >>

Aborted ==
    /\ panicked' = TRUE
    /\ last' = "panic"
    /\ UNCHANGED << game_vars, ply, undos, last_move, pre, pure_vars, loop_vars >>

\* execute_move aborts: the Game is left as it was at the panic
Failed(m) ==
    /\ \E res \in {execute_move_result(G, m)} : res.panic /\ SetGame(res.game)
    /\ panicked' = TRUE
    /\ last' = "failed"
    /\ last_move' = m
    /\ pre' = G
    /\ UNCHANGED << ply, undos, pure_vars, loop_vars >>

\* a caller asks for the valid moves of a square and executes one of them
Play ==
    /\ ~panicked
    /\ ply < MaxPly
    /\ \E from_index \in Index :
         \E res \in {valid_moves_from_result(G, from_index)} :
             /\ ~res.panic
             /\ \E i \in 1..Len(res.moves) : Executed(res.moves[i])

\* the query of valid_moves_from aborts
PlayPanic ==
    /\ ~panicked
    /\ ply < MaxPly
    /\ \E from_index \in Index : valid_moves_from_panics(G, from_index)
    /\ Aborted

KingSquares(g) == {i \in Index : g.board[i].piece_type = "King"}
RookSquares(g) == {i \in Index : g.board[i].piece_type = "Rook"}

\* a caller executes the Castle move that can_castle has returned
Castle ==
    /\ ~panicked
    /\ ply < MaxPly
    /\ \E king_index \in KingSquares(G), rook_index \in RookSquares(G), debug \in BOOLEAN :
         \E res \in {can_castle(G, king_index, rook_index, debug)} :
             /\ res.tag = "Ok"
             /\ ~execute_move_panics(G, res.move)
             /\ Executed(res.move)

\* can_castle or the execution of its Castle move aborts
CastlePanic ==
    /\ ~panicked
    /\ ply < MaxPly
    /\ \E king_index \in KingSquares(G), rook_index \in RookSquares(G), debug \in BOOLEAN :
         \E res \in {can_castle(G, king_index, rook_index, debug)} :
             \/ res.tag = "Panic" /\ Aborted
             \/ res.tag = "Ok" /\ Failed(res.move)

Undo ==
    /\ ~panicked
    /\ undos < MaxUndo
    /\ \E g \in {undo_last_move(G)} : SetGame(g)
    /\ undos' = undos + 1
    /\ last' = "undo"
    /\ UNCHANGED << panicked, ply, last_move, pre, pure_vars, loop_vars >>

Next == Play \/ PlayPanic \/ Castle \/ CastlePanic
Spec == Init /\ [][Next]_vars

NextUndo == Play \/ PlayPanic \/ Undo
SpecUndo == InitUndo /\ [][NextUndo]_vars

\* moves of valid_moves_from, Castle moves of can_castle and undo_last_move
NextHist == Play \/ PlayPanic \/ Castle \/ CastlePanic \/ Undo
SpecHist == Init /\ [][NextHist]_vars

\* ------------------------------------------------------------------------
\* execute_move called with any move, valid or not
\* ------------------------------------------------------------------------
ProbeSquares ==
    {<<1, 1>>, <<1, 2>>, <<1, 3>>, <<5, 1>>, <<5, 5>>, <<6, 5>>, <<6, 6>>,
     <<7, 1>>, <<8, 1>>}

ProbeMoves ==
    {regular(a, b) : a \in ProbeSquares, b \in ProbeSquares}
    \cup {CastleMove_new(E1, G1, H1, F1), CastleMove_new(E1, C1, A1, D1)}
    \cup {en_passant(<<5, 5>>, <<6, 6>>, <<6, 5>>), en_passant(<<5, 5>>, <<4, 6>>, <<4, 5>>)}
    \cup {promotion(<<8, 7>>, <<7, 8>>, "Queen"), promotion(<<1, 3>>, <<1, 4>>, "Queen")}

Execute ==
    /\ ~panicked
    /\ ply < MaxPly
    /\ \E m \in ProbeMoves : ~execute_move_panics(G, m) /\ Executed(m)

ExecuteFails ==
    /\ ~panicked
    /\ ply < MaxPly
    /\ \E m \in ProbeMoves : Failed(m)

NextExec == Execute \/ ExecuteFails
SpecExec == Init /\ [][NextExec]_vars

\* ------------------------------------------------------------------------
\* Properties
\* ------------------------------------------------------------------------
\* the last operation was an execute_move of a move of valid_moves_from
PlayedLast == last \in {"Regular", "Promotion", "EnPassant"}

\* the color that made last_move
mover == board[last_move.to_idx].color

\* every pseudo-legal move of the piece on s leaves its own king in check
all_moves_self_check(g, s) ==
    LET pl == pseudo_legal_moves(g, s).moves
    IN  \A j \in 1..Len(pl) :
            is_king_checked(execute_move(g, pl[j]), g.board[s].color)

\* C1: a move of valid_moves_from never leaves the mover's king in check
\* (is_king_checked of the mover's color is false after execute_move), and a
\* piece whose pseudo-legal moves all leave its king in check has an empty
\* valid_moves_from.  The second part is evaluated in the states in which a
\* move may still be played.
C1_NoSelfCheck ==
    /\ PlayedLast => ~is_king_checked(G, mover)
    /\ (~panicked /\ ply < MaxPly) =>
          \A s \in Index :
              is_some(board[s]) =>
                  \E res \in {valid_moves_from_result(G, s)} :
                      ~res.panic =>
                          /\ \A i \in 1..Len(res.moves) :
                                 ~is_king_checked(execute_move(G, res.moves[i]),
                                                  board[s].color)
                          /\ all_moves_self_check(G, s) => res.moves = << >>

\* C1 witness: a move of valid_moves_from has been executed, and the pawn d2
\* (pinned by the bishop b4) has pseudo-legal moves but no valid move
C1_Witness ==
    /\ ply = 1
    /\ PlayedLast
    /\ ~is_king_checked(G, mover)
    /\ board[<<4, 2>>].piece_type = "Pawn"
    /\ pseudo_legal_moves(G, <<4, 2>>).moves # << >>
    /\ all_moves_self_check(G, <<4, 2>>)
    /\ valid_moves_from(G, <<4, 2>>) = << >>

\* last_move was the two-square advance of the pawn now on square idx
double_step_onto(idx) ==
    /\ last \in ExecKinds
    /\ last_move.kind = "Regular"
    /\ last_move.to_idx = idx
    /\ file(last_move.from_idx) = file(idx)
    /\ (rank(last_move.from_idx) - rank(idx)) \in {2, -2}

\* C2: valid_moves_from contains an EnPassant move only when the last
\* executed move was the two-square advance of the pawn it captures
C2_EnPassantOnlyImmediately ==
    \A s \in Index :
        board[s].piece_type = "Pawn" =>
            \E moves \in {valid_moves_from(G, s)} :
                \A i \in 1..Len(moves) :
                    moves[i].kind = "EnPassant" => double_step_onto(moves[i].taken_pawn_idx)

\* the king of the color stands on square idx
KingAt(g, idx, color) ==
    /\ idx \in Index
    /\ g.board[idx].piece_type = "King"
    /\ g.board[idx].color = color

\* both stored king squares name the squares on which the kings stand
KingsCorrect(g) ==
    /\ KingAt(g, g.white_king, "White")
    /\ KingAt(g, g.black_king, "Black")

stored_king(g, color) == IF color = "Black" THEN g.black_king ELSE g.white_king

\* C3: after an execute_move in a state whose stored king squares are
\* correct, the stored king squares are the squares the kings stand on; after
\* a Castle move the stored king square of the castling color is king_to
C3_KingSquaresKept ==
    (last \in ExecKinds /\ KingsCorrect(pre)) =>
        /\ KingsCorrect(G)
        /\ last = "Castle" => stored_king(G, mover) = last_move.to_idx

\* the piece of the standard starting position on square i
standard_piece(i) ==
    CASE rank(i) \in {1, 8} /\ file(i) \in {1, 8} -> "Rook"
      [] rank(i) \in {1, 8} /\ file(i) \in {2, 7} -> "Knight"
      [] rank(i) \in {1, 8} /\ file(i) \in {3, 6} -> "Bishop"
      [] rank(i) \in {1, 8} /\ file(i) = 4        -> "Queen"
      [] rank(i) \in {1, 8} /\ file(i) = 5        -> "King"
      [] rank(i) \in {2, 7}                       -> "Pawn"
      [] OTHER                                    -> "None"

standard_color(i) ==
    CASE rank(i) \in {1, 2} -> "White"
      [] rank(i) \in {7, 8} -> "Black"
      [] OTHER              -> "None"

\* C4: Game::new() is the standard starting position with empty history and
\* capture lists, and its stored king squares are e1 and e8, the squares on
\* which the kings stand
C4_NewGame ==
    last = "new" =>
        /\ \A i \in Index : /\ board[i].piece_type = standard_piece(i)
                            /\ board[i].color = standard_color(i)
        /\ history = << >>
        /\ white_taken = << >>
        /\ black_taken = << >>
        /\ white_king = E1
        /\ black_king = E8
        /\ KingsCorrect(G)

\* C5: execute_move pushes exactly the pre-move board onto history, and an
\* undo_last_move that follows an execute_move restores the board (every
\* square's piece with its move history) and the history of before the move
C5_UndoRestoresBoard ==
    [][ /\ last' \in ExecKinds => history' = Append(history, board)
        /\ (last \in ExecKinds /\ last' = "undo") =>
               /\ board' = pre.board
               /\ history' = pre.history ]_vars

\* C5 witness: a move has been executed and undone, the board is the one of
\* before the move and differs from the board the move had produced
C5_Witness ==
    /\ ply = 1
    /\ undos = 1
    /\ last = "undo"
    /\ board = pre.board
    /\ history = pre.history
    /\ execute_move(pre, last_move).board # board

\* C6: an undo_last_move that follows the execute_move of a king move
\* restores the stored king squares to their values of before the move, and
\* the stored square of the moved king again names the square it stands on
C6_UndoRestoresKingSquares ==
    [][ (/\ last \in ExecKinds
         /\ last' = "undo"
         /\ pre.board[last_move.from_idx].piece_type = "King") =>
            /\ white_king' = pre.white_king
            /\ black_king' = pre.black_king
            /\ KingAt(G', stored_king(G', pre.board[last_move.from_idx].color),
                      pre.board[last_move.from_idx].color) ]_vars

\* C7: whenever can_castle returns Ok(c), valid_moves_from of the king's
\* square contains the Castle move c and is_move_valid holds of it
C7_CastleOffered ==
    \A king_index \in KingSquares(G), rook_index \in RookSquares(G), debug \in BOOLEAN :
        \E res \in {can_castle(G, king_index, rook_index, debug)} :
            res.tag = "Ok" =>
                /\ contains(valid_moves_from(G, king_index), res.move)
                /\ is_move_valid(G, res.move).valid

\* the squares on which the king and the rooks of a color start the game
king_home(color) == IF color = "Black" THEN E8 ELSE E1
rook_homes(color) == IF color = "Black" THEN {A8, H8} ELSE {A1, H1}

\* the squares strictly between two squares of one rank
strictly_between(a, b) ==
    {i \in Index : /\ rank(i) = rank(a)
                   /\ \/ file(a) < file(i) /\ file(i) < file(b)
                      \/ file(b) < file(i) /\ file(i) < file(a)}

\* the squares the king stands on, crosses and lands on when castling from
\* k toward r
king_path(k, r) ==
    {i \in Index : /\ rank(i) = rank(k)
                   /\ IF file(k) < file(r)
                      THEN file(k) <= file(i) /\ file(i) <= file(k) + 2
                      ELSE file(k) - 2 <= file(i) /\ file(i) <= file(k)}

same_colored_king_and_rook(g, k, r) ==
    /\ g.board[k].piece_type = "King"
    /\ g.board[r].piece_type = "Rook"
    /\ g.board[k].color = g.board[r].color

\* C8: can_castle returns Ok only for a king and a rook of one color that
\* have never moved and stand on their original squares, with the squares
\* strictly between them empty and no square of the king's path attacked;
\* each error variant reports the violation of its own condition
C8_CastleOnlyWhenAllowed ==
    \A k \in Index, r \in Index, debug \in BOOLEAN :
        \E res \in {can_castle(G, k, r, debug)} :
            /\ res.tag = "Ok" =>
                   /\ same_colored_king_and_rook(G, k, r)
                   /\ ~has_made_move(board[k]) /\ ~has_made_move(board[r])
                   /\ k = king_home(board[k].color)
                   /\ r \in rook_homes(board[k].color)
                   /\ \A i \in strictly_between(k, r) : is_none(board[i])
                   /\ \A i \in king_path(k, r) : ~is_checked(G, i, board[k].color)
            /\ res.tag = "WrongPieces" <=> ~same_colored_king_and_rook(G, k, r)
            /\ res.tag = "PieceHasMadeMove" =>
                   has_made_move(board[k]) \/ has_made_move(board[r])
            /\ res.tag = "PiecesBetween" =>
                   \E i \in strictly_between(k, r) : is_some(board[i])

\* C9: a never-moved king and a never-moved rook of one color on one rank,
\* with the squares strictly between them empty and the king's start,
\* crossed and destination squares not attacked, get Ok from can_castle
\* with the king two files toward the rook and the rook on the square the
\* king crossed
C9_CastleGranted ==
    \A k \in KingSquares(G), r \in RookSquares(G), debug \in BOOLEAN :
        (/\ board[k].color = board[r].color
         /\ ~has_made_move(board[k]) /\ ~has_made_move(board[r])
         /\ rank(k) = rank(r)
         /\ \A i \in strictly_between(k, r) : is_none(board[i])
         /\ \A i \in king_path(k, r) : ~is_checked(G, i, board[k].color)) =>
            LET toward == IF file(k) < file(r) THEN 1 ELSE -1
            IN  can_castle(G, k, r, debug) =
                    CanCastleOk(CastleMove_new(k, <<file(k) + 2 * toward, rank(k)>>,
                                               r, <<file(k) + toward, rank(k)>>))

\* C10: no pseudo-legal move generator returns, for an occupied square, a
\* move whose destination square holds a piece of the mover's color
C10_NoMoveOntoOwnPiece ==
    \A s \in Index :
        is_some(board[s]) =>
            \E moves \in {pseudo_legal_moves(G, s).moves} :
                \A i \in 1..Len(moves) :
                    ~(/\ is_some(board[moves[i].to_idx])
                      /\ board[moves[i].to_idx].color = board[s].color)

\* C11: an execute_move that fails leaves the board, the stored king
\* squares, both capture lists and the history as they were before the call
C11_FailedMoveChangesNothing ==
    last = "failed" => G = pre

\* the farthest rank for a pawn of the color
farthest_rank(color) == IF color = "Black" THEN 1 ELSE 8

\* the squares a pawn on s may step or capture to: the empty square straight
\* ahead and each forward diagonal holding an enemy piece
pawn_destinations(g, s) ==
    LET color == g.board[s].color
        ahead == rank(s) + (IF color = "Black" THEN -1 ELSE 1)
    IN  {d \in Index :
            /\ rank(d) = ahead
            /\ \/ file(d) = file(s) /\ is_none(g.board[d])
               \/ /\ file(d) \in {file(s) - 1, file(s) + 1}
                  /\ is_some(g.board[d])
                  /\ g.board[d].color = opponent(color)}

\* C12: a pawn move onto the farthest rank is generated as Promotion moves
\* only: for each destination on that rank valid_pawn_moves_from returns
\* exactly four moves, the promotions to knight, rook, queen and bishop, and
\* it returns no Promotion move to any other square
C12_PromotionOnly ==
    \A s \in Index :
        board[s].piece_type = "Pawn" =>
            \E moves \in {valid_pawn_moves_from(G, s, board[s].color).moves} :
                /\ \A i \in 1..Len(moves) :
                       (rank(moves[i].to_idx) = farthest_rank(board[s].color)
                        \/ moves[i].kind = "Promotion") =>
                           /\ moves[i].kind = "Promotion"
                           /\ moves[i].from_idx = s
                           /\ moves[i].to_idx \in pawn_destinations(G, s)
                           /\ rank(moves[i].to_idx) = farthest_rank(board[s].color)
                /\ \A d \in pawn_destinations(G, s) :
                       rank(d) = farthest_rank(board[s].color) =>
                           /\ Cardinality({i \in 1..Len(moves) : moves[i].to_idx = d}) = 4
                           /\ \A pt \in {"Knight", "Rook", "Queen", "Bishop"} :
                                  \E i \in 1..Len(moves) :
                                      moves[i] = promotion(s, d, pt)

\* C12 witness: after an executed move the white pawn on h7 can capture on
\* g8, and its moves are the four promotions on g8
C12_Witness ==
    /\ ply = 1
    /\ board[<<8, 7>>].piece_type = "Pawn"
    /\ board[<<8, 7>>].color = "White"
    /\ pawn_destinations(G, <<8, 7>>) = {G8}
    /\ Len(valid_pawn_moves_from(G, <<8, 7>>, "White").moves) = 4

\* every piece's history ends with the square the piece stands on
HistoriesOK(b) ==
    \A s \in Index :
        is_some(b[s]) => /\ b[s].history # << >>
                         /\ b[s].history[Len(b[s].history)] = s

\* the piece on square s of board b2 is a piece of board b1 that was left
\* alone, or one whose history got its new square appended, or a piece
\* new on the board (a promotion) with its square as its whole history
appended_only(b1, b2, s) ==
    \/ b2[s] = b1[s]
    \/ \E t \in Index :
           /\ is_some(b1[t])
           /\ b2[s].piece_type = b1[t].piece_type
           /\ b2[s].color = b1[t].color
           /\ b2[s].history = Append(b1[t].history, s)
    \/ b2[s].history = << s >>

\* C13: every piece's history ends with the piece's square, in the states
\* Game::new() and the opening lines lead to and after every execute_move
\* and undo_last_move; an execute_move only appends to histories (a Castle
\* move appends king_to to the king's and rook_to to the rook's, an
\* EnPassant move the destination to the pawn's); undo_last_move puts back
\* the pieces of the last board of history with the histories they had
C13_PieceHistories ==
    /\ HistoriesOK(board)
    /\ [][ /\ HistoriesOK(board')
           /\ last' \in ExecKinds =>
                  /\ \A s \in Index : is_some(board'[s]) => appended_only(board, board', s)
                  /\ board'[last_move'.to_idx].history
                         = (IF last' = "Promotion" THEN << >>
                            ELSE board[last_move'.from_idx].history)
                           \o << last_move'.to_idx >>
                  /\ last' = "Castle" =>
                         board'[last_move'.rook_to].history
                             = Append(board[last_move'.rook_from].history, last_move'.rook_to)
           /\ last' = "undo" =>
                  board' = (IF history = << >> THEN board ELSE history[Len(history)])
        ]_vars

\* C13 witness: a Castle move has been executed, the king's history is
\* [e1, g1] and the rook's is [h1, f1]
C13_Witness ==
    /\ last = "Castle"
    /\ board[G1].piece_type = "King"
    /\ board[G1].history = << E1, G1 >>
    /\ board[F1].piece_type = "Rook"
    /\ board[F1].history = << H1, F1 >>

\* C14: when a side has no king on its stored king square (the square is empty
\* or holds another piece), is_king_checked for that side yields an error
\* outcome, not a plain true/false answer
C14_MissingKingIsAnError ==
    \A color \in Colors :
        ~KingAt(G, stored_king(G, color), color) => is_king_checked(G, color) \notin BOOLEAN

\* ------------------------------------------------------------------------
\* Calls of the functions of File, Rank and ChessIndex
\* ------------------------------------------------------------------------
\* A char is its Unicode scalar value and a str the sequence of its chars;
\* str::as_bytes is the UTF-8 encoding.
utf8(c) ==
    IF c < 128 THEN << c >>
    ELSE IF c < 2048 THEN << 192 + (c \div 64), 128 + (c % 64) >>
    ELSE IF c < 65536
    THEN << 224 + (c \div 4096), 128 + ((c \div 64) % 64), 128 + (c % 64) >>
    ELSE << 240 + (c \div 262144), 128 + ((c \div 4096) % 64),
            128 + ((c \div 64) % 64), 128 + (c % 64) >>

RECURSIVE as_bytes(_)
as_bytes(s) == IF s = << >> THEN << >> ELSE utf8(Head(s)) \o as_bytes(Tail(s))

\* File::try_from(char): 'a'..'h' and 'A'..'H', 0 is Err(())
File_try_from_char(value) ==
    IF value \in 97..104 THEN value - 96
    ELSE IF value \in 65..72 THEN value - 64
    ELSE 0

\* Rank::try_from(char): '1'..'8', 0 is Err(())
Rank_try_from_char(value) == IF value \in 49..56 THEN value - 48 ELSE 0

\* ChessIndex::from_str: the length tested is the length in bytes, and the
\* two chars examined are the two bytes, each taken as a char
from_str(s) ==
    LET bytes == as_bytes(s)
    IN  IF Len(bytes) # 2
        THEN [tag |-> "LengthNot2", val |-> << >>]
        ELSE LET file_char == bytes[1]
                 rank_char == bytes[2]
             IN  IF File_try_from_char(file_char) = 0
                 THEN [tag |-> "InvalidFile", val |-> << file_char >>]
                 ELSE IF Rank_try_from_char(rank_char) = 0
                 THEN [tag |-> "InvalidRank", val |-> << rank_char >>]
                 ELSE [tag |-> "Ok",
                       val |-> ChessIndex_new(File_try_from_char(file_char),
                                              Rank_try_from_char(rank_char))]

\* Option<File> / Option<Rank> of an ordinal (0 is None), and a panic
Option(v) == IF v = 0 THEN [tag |-> "None", val |-> << >>] ELSE [tag |-> "Some", val |-> << v >>]
Panic == [tag |-> "Panic", val |-> << >>]

U8_MAX == 255
I32_MIN == -2147483647 - 1
I32_MAX == 2147483647

\* impl Add<u8> for File.  v += rhs overflows when the sum exceeds u8::MAX:
\* a panic in a build with overflow checks, a wrap-around in one without.
File_add_build(f, rhs, overflow_checks) ==
    IF f + rhs > U8_MAX /\ overflow_checks THEN Panic ELSE Option(File_add(f, rhs))
File_sub_build(f, rhs) == Option(File_sub(f, rhs))
Rank_add_build(r, rhs, overflow_checks) ==
    IF r + rhs > U8_MAX /\ overflow_checks THEN Panic ELSE Option(Rank_add(r, rhs))
Rank_sub_build(r, rhs) == Option(Rank_sub(r, rhs))
\* impl Add<i32> for Rank.  rhs.abs() overflows for i32::MIN: a panic with
\* overflow checks, and without them i32::MIN again, which is no u8.
Rank_add_i32_build(r, rhs, overflow_checks) ==
    IF rhs < 0
    THEN (IF rhs = I32_MIN
          THEN (IF overflow_checks THEN Panic ELSE Option(0))
          ELSE IF -rhs > U8_MAX THEN Option(0) ELSE Rank_sub_build(r, -rhs))
    ELSE (IF rhs > U8_MAX THEN Option(0) ELSE Rank_add_build(r, rhs, overflow_checks))

\* ChessIndex::linear_value
linear_value_narrow(idx) == 7 * (rank(idx) - 1) + (file(idx) - 1)
linear_value(idx) == 8 * (rank(idx) - 1) + (file(idx) - 1)

\* the chars of the strings parsed: the first and last letter and digit
\* accepted, their neighbours, and a char of two bytes
\* ` a h i @ A H I 0 1 8 9 e-acute
Chars == {96, 97, 104, 105, 64, 65, 72, 73, 48, 49, 56, 57, 233}
MaxStrLen == 3
\* the i32 operands are those up to MaxOperand either way, which is beyond
\* the u8 range, and the two extremes
MaxOperand == 260

ArithFns == {"File_add", "File_sub", "Rank_add", "Rank_sub", "Rank_add_i32"}

\* the calls made: from_str of every string of up to MaxStrLen chars, the
\* File and Rank operators with every u8 operand, Rank + i32, and
\* linear_value of every square
Calls ==
    {[fn |-> "from_str", args |-> s] : s \in UNION {[1..n -> Chars] : n \in 0..MaxStrLen}}
    \cup {[fn |-> f, args |-> << v, n >>] :
              f \in ArithFns \ {"Rank_add_i32"}, v \in 1..8, n \in 0..U8_MAX}
    \cup {[fn |-> "Rank_add_i32", args |-> << v, n >>] :
              v \in Ranks, n \in (-MaxOperand..MaxOperand) \cup {I32_MIN, I32_MAX}}
    \cup {[fn |-> "linear_value", args |-> idx] : idx \in Index}

InitCalls == InitGame(<< >>) /\ call \in Calls /\ ret = NoRet /\ NoLoop

Returned(r) ==
    /\ ret = NoRet
    /\ ret' = r
    /\ UNCHANGED << game_vars, panicked, ply, undos, last, last_move, pre, call, loop_vars >>

FromStr == call.fn = "from_str" /\ Returned(from_str(call.args))

Arith ==
    /\ call.fn \in ArithFns
    /\ \E overflow_checks \in BOOLEAN :
         Returned(CASE call.fn = "File_add" -> File_add_build(call.args[1], call.args[2], overflow_checks)
                    [] call.fn = "File_sub" -> File_sub_build(call.args[1], call.args[2])
                    [] call.fn = "Rank_add" -> Rank_add_build(call.args[1], call.args[2], overflow_checks)
                    [] call.fn = "Rank_sub" -> Rank_sub_build(call.args[1], call.args[2])
                    [] OTHER -> Rank_add_i32_build(call.args[1], call.args[2], overflow_checks))

LinearValue ==
    /\ call.fn = "linear_value"
    /\ Returned([tag |-> "usize", val |-> << linear_value(call.args) >>])

NextCalls == FromStr \/ Arith \/ LinearValue
SpecCalls == InitCalls /\ [][NextCalls]_vars

FileLetters == (97..104) \cup (65..72)
RankDigits == 49..56

\* C15: from_str returns Ok exactly for the strings of two chars, a file
\* letter a-h or A-H and a rank digit 1-8, with the square of that file and
\* rank; every other string gets LengthNot2 when its length is not two,
\* InvalidFile(c) for its first char c when that is no file letter, else
\* InvalidRank(c) for its second char c; it never panics
C15_FromStr ==
    (call.fn = "from_str" /\ ret # NoRet) =>
        LET s == call.args
        IN  /\ ret.tag \in {"Ok", "LengthNot2", "InvalidFile", "InvalidRank"}
            /\ ret.tag = "LengthNot2" <=> Len(s) # 2
            /\ Len(s) = 2 =>
                 /\ ret.tag = "InvalidFile" <=> s[1] \notin FileLetters
                 /\ ret.tag = "InvalidFile" => ret.val = << s[1] >>
                 /\ ret.tag = "InvalidRank" <=> (s[1] \in FileLetters /\ s[2] \notin RankDigits)
                 /\ ret.tag = "InvalidRank" => ret.val = << s[2] >>
                 /\ ret.tag = "Ok" =>
                      ret.val = << (IF s[1] >= 97 THEN s[1] - 96 ELSE s[1] - 64), s[2] - 48 >>

\* C16: v + n is Some(o + n) when o + n is an ordinal of the board and None
\* otherwise, v - n is Some(o - n) when o - n is one and None otherwise, for
\* every operand; no call panics and none returns a wrapped-around value
C16_NoWrap ==
    (call.fn \in ArithFns /\ ret # NoRet) =>
        LET o == call.args[1]
            n == call.args[2]
            on_board == /\ n \in -8..8
                        /\ (IF call.fn \in {"File_sub", "Rank_sub"} THEN o - n ELSE o + n) \in 1..8
        IN  ret = (IF on_board
                   THEN [tag |-> "Some",
                         val |-> << IF call.fn \in {"File_sub", "Rank_sub"} THEN o - n ELSE o + n >>]
                   ELSE [tag |-> "None", val |-> << >>])

\* C17: linear_value is 8*(rank-1)+(file-1), lies in 0..63, and no other
\* square has the same value
C17_LinearValue ==
    (call.fn = "linear_value" /\ ret # NoRet) =>
        /\ ret.val = << 8 * (rank(call.args) - 1) + (file(call.args) - 1) >>
        /\ ret.val[1] \in 0..63
        /\ \A other \in Index : other # call.args => linear_value(other) # ret.val[1]

C17_Witness ==
    /\ call.fn = "linear_value"
    /\ call.args = H8
    /\ ret.val = << 63 >>

\* ------------------------------------------------------------------------
\* Alternating play: White moves first and the colors take turns
\* ------------------------------------------------------------------------
\* 1. e4 e5 2. Ke2 Ke7 3. Kd3 Kd6 4. Kc4 Kc6: the kings stand two files apart
LineKingsMeet ==
    << regular(<<5, 2>>, <<5, 4>>), regular(<<5, 7>>, <<5, 5>>),
       regular(<<5, 1>>, <<5, 2>>), regular(<<5, 8>>, <<5, 7>>),
       regular(<<5, 2>>, <<4, 3>>), regular(<<5, 7>>, <<4, 6>>),
       regular(<<4, 3>>, <<3, 4>>), regular(<<4, 6>>, <<3, 6>>) >>

\* 1. e4 f5 2. Qh5 a6: the white queen faces the black king on its diagonal
LineQueenCheck ==
    << regular(<<5, 2>>, <<5, 4>>), regular(<<6, 7>>, <<6, 5>>),
       regular(<<4, 1>>, <<8, 5>>), regular(<<1, 7>>, <<1, 6>>) >>

LinesTurns == {LineNew, LineKingPawn, LineKingsMeet, LineQueenCheck, LineKnightBehind}
InitTurns == \E line \in LinesTurns : InitFrom(line)

\* the color whose turn it is
to_move == IF last = "new" THEN "White" ELSE opponent(board[last_move.to_idx].color)

\* the side to move executes one of the valid moves of one of its pieces
PlayTurn ==
    /\ ~panicked
    /\ ply < MaxPly
    /\ \E from_index \in {i \in Index : board[i].color = to_move} :
         \E res \in {valid_moves_from_result(G, from_index)} :
             /\ ~res.panic
             /\ \E i \in 1..Len(res.moves) : Executed(res.moves[i])

\* the query of valid_moves_from for a piece of the side to move aborts
PlayTurnPanic ==
    /\ ~panicked
    /\ ply < MaxPly
    /\ \E from_index \in {i \in Index : board[i].color = to_move} :
         valid_moves_from_panics(G, from_index)
    /\ Aborted

NextTurns == PlayTurn \/ PlayTurnPanic
SpecTurns == InitTurns /\ [][NextTurns]_vars

Kings(g, color) == {i \in Index : KingAt(g, i, color)}

adjacent(a, b) ==
    /\ a # b
    /\ file(a) - file(b) \in -1..1
    /\ rank(a) - rank(b) \in -1..1

\* C18: in alternating play from Game::new() the board holds exactly one
\* king of each color; the move just played, taken from valid_moves_from,
\* has not captured a king and has not put the mover's king on a square
\* adjacent to the enemy king
C18_OneKingEach ==
    /\ \A color \in Colors : Cardinality(Kings(G, color)) = 1
    /\ (last \in ExecKinds /\ ply > 0) =>
           /\ pre.board[last_move.to_idx].piece_type # "King"
           /\ board[last_move.to_idx].piece_type = "King" =>
                  \A k \in Kings(G, opponent(mover)) : ~adjacent(last_move.to_idx, k)

\* C19: in a state reached by executing moves of valid_moves_from, the query
\* valid_moves_from aborts for no square: every candidate it simulates on
\* its copy of the Game meets the preconditions of execute_move.  (The query
\* works on the copy, so the Game itself is as before whenever it returns.)
C19_QueryNeverAborts ==
    (~panicked /\ ply < MaxPly) =>
        \A from_index \in Index : ~valid_moves_from_panics(G, from_index)

\* C20: for a king and a rook of one color on one rank that have never
\* moved, can_castle returns PiecesBetween whenever a square strictly
\* between them is occupied, whatever squares are attacked
C20_PiecesBetweenFirst ==
    \A king_index \in KingSquares(G), rook_index \in RookSquares(G), debug \in BOOLEAN :
        ( /\ same_colored_king_and_rook(G, king_index, rook_index)
          /\ rank(king_index) = rank(rook_index)
          /\ ~has_made_move(board[king_index])
          /\ ~has_made_move(board[rook_index])
          /\ \E s \in strictly_between(king_index, rook_index) : is_some(board[s]) )
        => can_castle(G, king_index, rook_index, debug).tag = "PiecesBetween"

\* ------------------------------------------------------------------------
\* Material, captures and undo
\* ------------------------------------------------------------------------
pieces_of(b, color) == {i \in Index : b[i].color = color}

taken_of(g, color) == IF color = "Black" THEN g.black_taken ELSE g.white_taken

\* the piece that last_move takes off the board of pre, NoPiece if none
captured_last ==
    IF last = "Castle" THEN NoPiece
    ELSE IF last = "EnPassant" THEN pre.board[last_move.taken_pawn_idx]
    ELSE pre.board[last_move.to_idx]

\* C21: in the states reached by executing valid moves (no undo) the pieces
\* on the board and in the two capture lists number 32, each list holds
\* pieces of the opposite color only, and the move just executed has
\* appended the piece it captured, if any, to the mover's list and nothing
\* else to either list (a Castle move appends nothing)
C21_MaterialConserved ==
    ~panicked =>
        /\ Cardinality({i \in Index : is_some(board[i])})
             + Len(white_taken) + Len(black_taken) = 32
        /\ \A color \in Colors :
             \A i \in 1..Len(taken_of(G, color)) :
                 taken_of(G, color)[i].color = opponent(color)
        /\ last \in ExecKinds =>
             /\ taken_of(G, mover) =
                    (IF is_some(captured_last)
                     THEN Append(taken_of(pre, mover), captured_last)
                     ELSE taken_of(pre, mover))
             /\ taken_of(G, opponent(mover)) = taken_of(pre, opponent(mover))
             /\ last = "Castle" => white_taken = pre.white_taken /\ black_taken = pre.black_taken

C21_Witness ==
    /\ ~panicked
    /\ ply > 0
    /\ last = "EnPassant"
    /\ is_some(captured_last)
    /\ white_taken = Append(pre.white_taken, captured_last)

piece_value(p) ==
    CASE p.piece_type = "Pawn"   -> 1
      [] p.piece_type = "Knight" -> 3
      [] p.piece_type = "Bishop" -> 3
      [] p.piece_type = "Rook"   -> 5
      [] p.piece_type = "Queen"  -> 9
      [] OTHER                   -> 0

RECURSIVE sum_values(_)
sum_values(pieces) ==
    IF pieces = << >> THEN 0 ELSE piece_value(Head(pieces)) + sum_values(Tail(pieces))

\* Game::score: the u8 sum of the values of the player's capture list; a sum
\* beyond u8::MAX panics with overflow checks and wraps around without (-1
\* stands for the panic)
score(g, player, overflow_checks) ==
    LET total == sum_values(taken_of(g, player))
    IN  IF total <= U8_MAX THEN total
        ELSE IF overflow_checks THEN -1 ELSE total % (U8_MAX + 1)

\* C22: an undo_last_move that follows an execute_move puts the capture
\* lists back to their values before the move; in every state each capture
\* list holds as many pieces as the opposing color is short of sixteen on
\* the board, and score is the sum of their values
C22_UndoRevertsCaptures ==
    /\ (last = "undo" /\ board = pre.board /\ history = pre.history) =>
           white_taken = pre.white_taken /\ black_taken = pre.black_taken
    /\ \A color \in Colors :
           /\ Len(taken_of(G, color)) = 16 - Cardinality(pieces_of(board, opponent(color)))
           /\ \A overflow_checks \in BOOLEAN :
                  score(G, color, overflow_checks) = sum_values(taken_of(G, color))

\* ------------------------------------------------------------------------
\* Sliding attacks and sliding moves
\* ------------------------------------------------------------------------
Directions == (-1..1) \X (-1..1) \ {<<0, 0>>}

\* the square n steps from s in direction d (possibly off the board)
step(s, d, n) == << file(s) + n * d[1], rank(s) + n * d[2] >>

\* the distances from s in direction d at which a piece stands
occupied_at(b, s, d) == {n \in 1..7 : step(s, d, n) \in Index /\ is_some(b[step(s, d, n)])}

\* the first piece met walking outward from s in direction d, if any
first_met(b, s, d) ==
    IF occupied_at(b, s, d) = {} THEN NoIdx
    ELSE step(s, d, CHOOSE n \in occupied_at(b, s, d) : \A k \in occupied_at(b, s, d) : n <= k)

covers(piece_type, d) ==
    IF d[1] = 0 \/ d[2] = 0
    THEN piece_type \in {"Rook", "Queen"}
    ELSE piece_type \in {"Bishop", "Queen"}

\* C23: the bishop, rook and queen scans of is_checked report an attack on
\* s for color c exactly when, in some direction, the first piece met from s
\* is a piece of c's opponent whose movement covers the direction; a scan
\* returns a square of the board or nothing.  Evaluated in the states in
\* which a move may still be played.
C23_SlidingAttacks ==
    (~panicked /\ ply < MaxPly) =>
        \A s \in Index, c \in Colors :
            /\ ( \/ is_checked_by_bishop(G, s, c) # NoIdx
                 \/ is_checked_by_rook(G, s, c) # NoIdx
                 \/ is_checked_by_queen(G, s, c) # NoIdx )
               <=> \E d \in Directions :
                       \E m \in {first_met(board, s, d)} :
                           /\ m # NoIdx
                           /\ board[m].color = opponent(c)
                           /\ covers(board[m].piece_type, d)
            /\ {is_checked_by_bishop(G, s, c), is_checked_by_rook(G, s, c),
                is_checked_by_queen(G, s, c)} \subseteq Index \cup {NoIdx}

\* from e6 the bishop on c4 is found; from e1 the bishop on b4 is hidden
\* behind the pawn on d2
C23_Witness ==
    /\ ply < MaxPly
    /\ is_checked_by_bishop(G, <<5, 6>>, "Black") = <<3, 4>>
    /\ first_met(board, E1, <<-1, 1>>) = <<4, 2>>
    /\ board[<<2, 4>>].piece_type = "Bishop"
    /\ board[<<2, 4>>].color = "Black"
    /\ is_checked_by_bishop(G, E1, "White") = NoIdx

\* the distances a piece of the given color on s may slide in direction d:
\* every square before the first occupied one, and that one when it holds
\* an opposing piece
reach(b, s, d, color) ==
    {n \in 1..7 : /\ step(s, d, n) \in Index
                  /\ \A k \in 1..(n - 1) : is_none(b[step(s, d, k)])
                  /\ \/ is_none(b[step(s, d, n)])
                     \/ b[step(s, d, n)].color = opponent(color)}

Range(seq) == {seq[i] : i \in 1..Len(seq)}

slides(b, s, ds, color) ==
    UNION {{regular(s, step(s, d, n)) : n \in reach(b, s, d, color)} : d \in ds}

Straight == {d \in Directions : d[1] = 0 \/ d[2] = 0}

\* C24: for every piece and direction, moves_to_opponents_piece is the
\* sequence, by increasing distance, of the Regular moves to the squares
\* the piece may slide to; the rook, bishop and queen generators hold the
\* moves of their 4, 4 and 8 rays, each once.  Evaluated in the states in
\* which a move may still be played.
C24_SlidingMoves ==
    (~panicked /\ ply < MaxPly) =>
        \A s \in Index :
            is_some(board[s]) =>
                \E c \in {board[s].color} :
                    /\ \A d \in Directions :
                           \E ray \in {moves_to_opponents_piece(G, s, d[1], d[2], c)} :
                               /\ Len(ray) = Cardinality(reach(board, s, d, c))
                               /\ \A n \in 1..Len(ray) :
                                      n \in reach(board, s, d, c) /\ ray[n] = regular(s, step(s, d, n))
                    /\ \E ms \in {valid_rook_moves_from(G, s, c)} :
                           /\ Range(ms) = slides(board, s, Straight, c)
                           /\ Len(ms) = Cardinality(Range(ms))
                    /\ \E ms \in {valid_bishop_moves_from(G, s, c)} :
                           /\ Range(ms) = slides(board, s, Directions \ Straight, c)
                           /\ Len(ms) = Cardinality(Range(ms))
                    /\ \E ms \in {valid_queen_moves_from(G, s, c)} :
                           /\ Range(ms) = slides(board, s, Directions, c)
                           /\ Len(ms) = Cardinality(Range(ms))

\* the bishop on b4 slides to c3 and captures on d2; the bishop on c4 slides
\* to b3 and stops before its own pawn on a2
C24_Witness ==
    /\ ply < MaxPly
    /\ moves_to_opponents_piece(G, <<2, 4>>, 1, -1, "Black")
         = << regular(<<2, 4>>, <<3, 3>>), regular(<<2, 4>>, <<4, 2>>) >>
    /\ moves_to_opponents_piece(G, <<3, 4>>, -1, -1, "White")
         = << regular(<<3, 4>>, <<2, 3>>) >>

\* ------------------------------------------------------------------------
\* Pawn moves, en passant and promotion
\* ------------------------------------------------------------------------
forward(color) == IF color = "Black" THEN -1 ELSE 1

\* C25: a pawn's Regular or Promotion move along its file goes one square
\* forward onto an empty square, or two squares forward from the pawn's
\* starting rank over an empty square onto an empty square; its Regular or
\* Promotion move to another file goes one square diagonally forward onto
\* an opposing piece
C25_PawnAdvances ==
    ~panicked =>
        \A s \in Index :
            board[s].piece_type = "Pawn" =>
                \E c \in {board[s].color} :
                    \E ms \in {valid_pawn_moves_from(G, s, c).moves} :
                        \A i \in 1..Len(ms) :
                            ms[i].kind \in {"Regular", "Promotion"} =>
                                \E to \in {ms[i].to_idx} :
                                    /\ ms[i].from_idx = s
                                    /\ to \in Index
                                    /\ file(to) = file(s) =>
                                         /\ is_none(board[to])
                                         /\ \/ rank(to) = rank(s) + forward(c)
                                            \/ /\ rank(to) = rank(s) + 2 * forward(c)
                                               /\ rank(s) = (IF c = "White" THEN 2 ELSE 7)
                                               /\ is_none(board[<<file(s), rank(s) + forward(c)>>])
                                    /\ file(to) # file(s) =>
                                         /\ file(to) - file(s) \in {-1, 1}
                                         /\ rank(to) = rank(s) + forward(c)
                                         /\ board[to].color = opponent(c)

\* the pawn on h7 stands before the rook on h8: it has the captures on g8
\* and no move along its file; the pawn on d2 has both advances
C25_Witness ==
    /\ board[<<8, 7>>].piece_type = "Pawn"
    /\ is_some(board[H8])
    /\ contains(valid_pawn_moves_from(G, <<8, 7>>, "White").moves, promotion(<<8, 7>>, G8, "Queen"))
    /\ ~contains(valid_pawn_moves_from(G, <<8, 7>>, "White").moves, promotion(<<8, 7>>, H8, "Queen"))
    /\ contains(valid_pawn_moves_from(G, <<4, 2>>, "White").moves, regular(<<4, 2>>, <<4, 4>>))

\* C26: an EnPassant move generated for the pawn on s names as captured
\* square a square q beside s that holds an opposing pawn and as destination
\* the square one rank forward of q; executing it succeeds, leaves the pawn
\* on the destination, s and q empty and every other square as it was, and
\* appends the captured pawn to the mover's capture list
C26_EnPassantMove ==
    (~panicked /\ ply < MaxPly) =>
        \A s \in Index :
            board[s].piece_type = "Pawn" =>
                \E c \in {board[s].color} :
                    \E ms \in {valid_pawn_moves_from(G, s, c).moves} :
                        \A i \in 1..Len(ms) :
                            ms[i].kind = "EnPassant" =>
                                \E q \in {ms[i].taken_pawn_idx}, to \in {ms[i].to_idx},
                                   res \in {execute_move_result(G, ms[i])} :
                                    /\ ms[i].from_idx = s
                                    /\ rank(q) = rank(s)
                                    /\ file(q) - file(s) \in {-1, 1}
                                    /\ board[q].piece_type = "Pawn"
                                    /\ board[q].color = opponent(c)
                                    /\ to = << file(q), rank(q) + forward(c) >>
                                    /\ ~res.panic
                                    /\ res.game.board[to].piece_type = "Pawn"
                                    /\ res.game.board[to].color = c
                                    /\ \A x \in Index \ {to} :
                                           res.game.board[x] = (IF x \in {s, q} THEN NoPiece ELSE board[x])
                                    /\ taken_of(res.game, c) = Append(taken_of(G, c), board[q])
                                    /\ taken_of(res.game, opponent(c)) = taken_of(G, opponent(c))

\* C27: after a Promotion move the source square is empty, the destination
\* holds a piece of the chosen kind (no pawn) and of the pawn's color, the
\* piece that stood on the destination, if any, has been appended to the
\* mover's capture list, and every other square and the other list are as
\* before
C27_PromotionExecuted ==
    (~panicked /\ last = "Promotion") =>
        \E from \in {last_move.from_idx}, to \in {last_move.to_idx} :
            \E pawn \in {pre.board[from]} :
                /\ pawn.piece_type = "Pawn"
                /\ is_none(board[from])
                /\ board[to].piece_type = last_move.promotion_piece
                /\ board[to].piece_type \in {"Knight", "Rook", "Queen", "Bishop"}
                /\ board[to].color = pawn.color
                /\ \A x \in Index \ {from, to} : board[x] = pre.board[x]
                /\ taken_of(G, pawn.color) =
                       (IF is_some(pre.board[to])
                        THEN Append(taken_of(pre, pawn.color), pre.board[to])
                        ELSE taken_of(pre, pawn.color))
                /\ taken_of(G, opponent(pawn.color)) = taken_of(pre, opponent(pawn.color))

\* the pawn on h7 has captured the knight on g8 and become a queen
C27_Witness ==
    /\ ply > 0
    /\ last = "Promotion"
    /\ pre.board[G8].piece_type = "Knight"
    /\ board[G8].piece_type = "Queen"
    /\ board[G8].color = "White"
    /\ white_taken = Append(pre.white_taken, pre.board[G8])

\* the destinations of the pseudo-legal moves of the pawns, knights,
\* bishops, rooks and queens of the given color
destinations(g, color) ==
    UNION {UNION {Range([i \in 1..Len(ms) |-> ms[i].to_idx]) : ms \in {pseudo_legal_moves(g, x).moves}} :
              x \in {y \in pieces_of(g.board, color) : g.board[y].piece_type # "King"}}

\* C28: for every square s holding a piece of color c, is_checked(s, c) is
\* true exactly when a pawn, knight, bishop, rook or queen of the opposing
\* color has a pseudo-legal move with destination s.  Evaluated in the
\* states in which a move may still be played.
C28_AttackMirrorsMoves ==
    (~panicked /\ ply < MaxPly) =>
        \A c \in Colors :
            \E dests \in {destinations(G, opponent(c))} :
                \A s \in pieces_of(board, c) :
                    is_checked(G, s, c) <=> s \in dests

\* the pawn on e6 is attacked by the bishop on c4, the knight on g8 by the
\* pawn on h7, and the king on e1 by nothing
C28_Witness ==
    /\ ply < MaxPly
    /\ is_checked(G, <<5, 6>>, "Black")
    /\ <<5, 6>> \in destinations(G, "White")
    /\ is_checked_by_pawn(G, G8, "Black") = <<8, 7>>
    /\ G8 \in destinations(G, "White")
    /\ ~is_checked(G, E1, "White")
    /\ E1 \notin destinations(G, "Black")

\* ------------------------------------------------------------------------
\* The local play loop (PlayLocal): the players enter squares in turn
\* ------------------------------------------------------------------------
game_over(g) == is_king_checked(g, "Black") \/ is_king_checked(g, "White")

\* the line can be played in the loop: the colors alternate from White,
\* every move is offered for a piece of the player when it is played, and
\* the game is not over after any of the moves
line_is_played(line) ==
    \A n \in 1..Len(line) :
        \E g \in {replay(Game_default, line, n - 1)} :
            /\ g.board[line[n].from_idx].color = (IF n % 2 = 1 THEN "White" ELSE "Black")
            /\ is_move_valid(g, line[n]).valid
            /\ ~game_over(execute_move(g, line[n]))

\* the most turns played in one run of the loop
MaxTurns == 4

\* play() starts from Game::new(); the second line is a game that the loop
\* has been playing for twelve turns
LinesLoop == {LineNew, LineKnightBehind}

\* play() asks White first, and after a line the opponent of the player
\* whose piece moved last
InitLoop ==
    \E line \in LinesLoop :
        /\ line_is_played(line)
        /\ InitGame(line)
        /\ call = NoCall
        /\ ret = NoRet
        /\ pc = "choose_from_square"
        /\ turn = (IF line = << >> THEN "White"
                   ELSE opponent(board[line[Len(line)].to_idx].color))
        /\ entered = NoIdx
        /\ valid_moves = {}
        /\ said = "board"

\* the squares the players type: a1 (a rook that cannot move), the pawns
\* and squares of 1. f3 e5 2. g4 Qh4 and of 1. e4 e5, and e5 of the second
\* line
Answers ==
    {<<1, 1>>, <<5, 2>>, <<5, 4>>, <<6, 2>>, <<6, 3>>, <<7, 2>>, <<7, 4>>,
     <<4, 8>>, <<5, 7>>, <<5, 5>>, <<8, 4>>}

\* what stdin.read_line gives: an error (the line is not UTF-8, the read
\* fails), or the line read into the buffer: a square of Answers and the
\* newline, nothing at the end of the input, an empty line, "i9", and
\* " E2 " ended by a carriage return and the newline
Reads ==
    {[tag |-> "Err", buffer |-> << >>]}
    \cup {[tag |-> "Ok", buffer |-> << 96 + file(idx), 48 + rank(idx), 10 >>] :
              idx \in Answers}
    \cup {[tag |-> "Ok", buffer |-> s] :
              s \in {<< >>, << 10 >>, << 105, 57, 10 >>, << 32, 69, 50, 32, 13, 10 >>}}

\* str::trim: the chars of White_Space are removed at both ends
RECURSIVE trim(_)
trim(s) ==
    LET White_Space == {9, 10, 11, 12, 13, 32, 133, 160, 5760, 8232, 8233,
                        8239, 8287, 12288} \cup (8192..8202)
    IN  IF s = << >> THEN s
        ELSE IF Head(s) \in White_Space THEN trim(Tail(s))
        ELSE IF s[Len(s)] \in White_Space THEN trim(SubSeq(s, 1, Len(s) - 1))
        ELSE s

\* one pass of the loop of input_chess_index over what read_line gives: the
\* unwrap of an error panics, a line that is a square returns it, and any
\* other line is reported and the loop reads again
input_chess_index(read) ==
    IF read.tag = "Err"
    THEN [tag |-> "panic", idx |-> NoIdx]
    ELSE LET parsed == from_str(trim(read.buffer))
         IN  IF parsed.tag = "Ok"
             THEN [tag |-> "return", idx |-> parsed.val]
             ELSE [tag |-> "again", idx |-> NoIdx]

\* the map collected from the moves: a later move replaces an earlier one
\* that has the same destination
collect(moves) ==
    {<< moves[i].to_idx, moves[i] >> :
         i \in {j \in 1..Len(moves) :
                    \A k \in (j + 1)..Len(moves) : moves[k].to_idx # moves[j].to_idx}}

\* one pass of the loop of choose_from_square over the square entered; res
\* is what the one call of valid_moves_from gives
choose_from_square(g, color, from_index) ==
    IF is_some(g.board[from_index]) /\ g.board[from_index].color = color
    THEN CHOOSE r \in
             {IF res.panic
              THEN [tag |-> "panic", valid_moves |-> {}, said |-> "none"]
              ELSE [tag         |-> "break",
                    valid_moves |-> collect(res.moves),
                    said        |-> IF res.moves = << >> THEN "no valid moves"
                                    ELSE "valid moves"] :
                  res \in {valid_moves_from_result(g, from_index)}} : TRUE
    ELSE [tag |-> "again", valid_moves |-> {}, said |-> "no piece to move"]

\* one pass of the loop of choose_move over the square entered
choose_move(moves_by_destination, to_index) ==
    LET found == {kv \in moves_by_destination : kv[1] = to_index}
    IN  IF found # {}
        THEN [tag |-> "return", move |-> (CHOOSE kv \in found : TRUE)[2]]
        ELSE [tag |-> "again", move |-> NoMove]

\* Game::make_move returns a Result that single_turn unwraps.  The Game of
\* lib.rs has no make_move, it has execute_move, so what the call gives is
\* left open: Ok with the move executed as execute_move executes it, or an
\* Err; an execute_move that aborts aborts the call
make_move(g, chess_move) ==
    {[tag |-> "Err", game |-> g]}
    \cup {IF res.panic THEN [tag |-> "Panic", game |-> res.game]
          ELSE [tag |-> "Ok", game |-> res.game] :
              res \in {execute_move_result(g, chess_move)}}

\* the loop is at the prompt of choose_from_square or of choose_move, and
\* input_chess_index is about to read a line
AtPrompt(at) ==
    /\ ~panicked
    /\ ply < MaxTurns
    /\ pc = at

\* stdin.read_line(..).unwrap() panics at either prompt
ReadLinePanic ==
    /\ \/ AtPrompt("choose_from_square")
       \/ AtPrompt("choose_move")
    /\ (\E read \in Reads : input_chess_index(read).tag = "panic") = TRUE
    /\ panicked' = TRUE
    /\ last' = "panic"
    /\ UNCHANGED << game_vars, ply, undos, last_move, pre, pure_vars, loop_vars >>

\* input_chess_index reads a line that ChessIndex::from_str rejects, says
\* so and reads again
InvalidIndex ==
    /\ \/ AtPrompt("choose_from_square")
       \/ AtPrompt("choose_move")
    /\ (\E read \in Reads : input_chess_index(read).tag = "again") = TRUE
    /\ said' = "invalid format of index"
    /\ UNCHANGED << game_vars, panicked, ply, undos, last, last_move, pre, pure_vars,
                    pc, turn, entered, valid_moves >>

\* the squares that input_chess_index returns for the lines read
Entered == {inp.idx : inp \in {r \in {input_chess_index(read) : read \in Reads} :
                                   r.tag = "return"}}

\* choose_from_square returns the square and the map of its moves
ChooseFromSquare ==
    /\ AtPrompt("choose_from_square")
    /\ \E from_index \in Entered :
         \E r \in {choose_from_square(G, turn, from_index)} :
             /\ r.tag = "break"
             /\ pc' = "choose_move"
             /\ entered' = from_index
             /\ valid_moves' = r.valid_moves
             /\ said' = r.said
    /\ UNCHANGED << game_vars, panicked, ply, undos, last, last_move, pre, pure_vars, turn >>

\* choose_from_square asks for a new index
ChooseFromSquareAgain ==
    /\ AtPrompt("choose_from_square")
    /\ (\E from_index \in Entered :
            choose_from_square(G, turn, from_index).tag = "again") = TRUE
    /\ said' = "no piece to move"
    /\ UNCHANGED << game_vars, panicked, ply, undos, last, last_move, pre, pure_vars,
                    pc, turn, entered, valid_moves >>

\* valid_moves_from aborts in choose_from_square
ChooseFromSquarePanic ==
    /\ AtPrompt("choose_from_square")
    /\ \E from_index \in Entered :
         /\ choose_from_square(G, turn, from_index).tag = "panic"
         /\ entered' = from_index
    /\ panicked' = TRUE
    /\ last' = "panic"
    /\ UNCHANGED << game_vars, ply, undos, last_move, pre, pure_vars,
                    pc, turn, valid_moves, said >>

\* choose_move asks again: the map has no move to the square entered
ChooseMoveAgain ==
    /\ AtPrompt("choose_move")
    /\ (\E to_index \in Entered : choose_move(valid_moves, to_index).tag = "again") = TRUE
    /\ said' = "can't move"
    /\ UNCHANGED << game_vars, panicked, ply, undos, last, last_move, pre, pure_vars,
                    pc, turn, entered, valid_moves >>

\* choose_move returns a move, make_move returns Ok, and play either
\* returns because the game is over or goes on to the turn of the other
\* player
SingleTurn ==
    /\ AtPrompt("choose_move")
    /\ \E to_index \in Entered :
         \E r \in {choose_move(valid_moves, to_index)} :
             /\ r.tag = "return"
             /\ \E res \in make_move(G, r.move) :
                  /\ res.tag = "Ok"
                  /\ SetGame(res.game)
                  /\ IF game_over(res.game)
                     THEN pc' = "over" /\ turn' = turn /\ said' = "wins"
                     ELSE pc' = "choose_from_square" /\ turn' = opponent(turn)
                          /\ said' = "board"
             /\ last' = r.move.kind
             /\ last_move' = r.move
    /\ ply' = ply + 1
    /\ pre' = G
    /\ entered' = NoIdx
    /\ valid_moves' = {}
    /\ UNCHANGED << panicked, undos, pure_vars >>

\* choose_move returns a move and make_move does not return Ok: the unwrap
\* of single_turn panics
SingleTurnPanic ==
    /\ AtPrompt("choose_move")
    /\ (\E to_index \in Entered :
            \E r \in {choose_move(valid_moves, to_index)} :
                /\ r.tag = "return"
                /\ \E res \in make_move(G, r.move) : res.tag # "Ok") = TRUE
    /\ panicked' = TRUE
    /\ last' = "panic"
    /\ said' = "unwrap of make_move"
    /\ UNCHANGED << game_vars, ply, undos, last_move, pre, pure_vars,
                    pc, turn, entered, valid_moves >>

NextLoop ==
    \/ ReadLinePanic
    \/ InvalidIndex
    \/ ChooseFromSquare
    \/ ChooseFromSquareAgain
    \/ ChooseFromSquarePanic
    \/ ChooseMoveAgain
    \/ SingleTurn
    \/ SingleTurnPanic
SpecLoop == InitLoop /\ [][NextLoop]_vars

\* C29: in the local play loop the destination prompt of choose_move is
\* only ever entered with a non-empty map of valid moves, because a piece
\* without valid moves is reported and choose_from_square asks for another
\* square: after the message that the piece has no valid moves the loop is
\* at the prompt of choose_from_square again
C29_TurnCompletes ==
    /\ pc = "choose_move" => valid_moves # {}
    /\ said = "no valid moves" => pc = "choose_from_square"

====
